---- MODULE Spec2Model ----
(***************************************************************************)
(* Dynamic inventory script (src/code.py): records retrieved from the      *)
(* CMDB are filtered by ignore_host, validated by resolve_dns, grouped by  *)
(* distribute_hosts, assembled by build_ansible_inventory and printed.     *)
(*                                                                         *)
(* A Python dict is a sequence of [key, hosts] entries in insertion order. *)
(* A record of the CMDB is a function whose domain is the set of fields it *)
(* carries, so that a missing field is a field outside the domain.         *)
(***************************************************************************)
EXTENDS Integers, Sequences, FiniteSets, TLC

VARIABLES pc, debug, raw_hosts, idx, filtered_hosts, distribution, inventory,
          stdout, stderr, exit_status, calls

vars == <<pc, debug, raw_hosts, idx, filtered_hosts, distribution, inventory,
          stdout, stderr, exit_status, calls>>

\* ------------------------------------------------------------------ bounds
\* Longest sequence of records the retrieval returns.
MaxRecords == 3

\* Python's None (the value of rec.get("name") for a record without a name).
None == "<None>"

\* The exit status of a process that has not exited.
NotExited == 0 - 1

\* The records the CMDB can return: eligible ones (two names, two groups
\* and a group named "all"), one on the hostname denylist, one on the group
\* denylist, one with an empty group, one without the group field and one
\* without the name field.
HostRecords ==
    {[name |-> "web01", u_patching_group |-> "webservers"],
     [name |-> "db01.lab.net", u_patching_group |-> "webservers"],
     [name |-> "web01", u_patching_group |-> "dbteam"],
     [name |-> "web01", u_patching_group |-> "all"],
     [name |-> "DRHOST01", u_patching_group |-> "webservers"],
     [name |-> "web01", u_patching_group |-> "Unix_Team"],
     [name |-> "DRHOST01", u_patching_group |-> ""],
     [name |-> "web01"],
     [u_patching_group |-> "webservers"]}

\* The answers of socket.gethostbyname: an address, or an exception.
LookupFailed == "gaierror"

Lookups == {"10.0.0.1", LookupFailed}

\* ------------------------------------------------------- configuration
IGNORE_HOSTS == {"drhost01", "backup01"}

IGNORE_GROUPS == {"unix_team", "do_not_patch"}

\* ------------------------------------------------------- string helpers
\* str.lower() on the strings of the model.
Lower(s) ==
    CASE s = "DRHOST01" -> "drhost01"
      [] s = "Unix_Team" -> "unix_team"
      [] OTHER -> s

\* "." in hostname
HasDot(s) == s \in {"db01.lab.net", "web01.example.com", "DRHOST01.example.com"}

\* f"{hostname}.{domain}" with the default domain "example.com"
Qualify(s) ==
    CASE s = "web01" -> "web01.example.com"
      [] s = "DRHOST01" -> "DRHOST01.example.com"
      [] OTHER -> s

\* dict.get(key, default) on a record
Get(rec, key, default) == IF key \in DOMAIN rec THEN rec[key] ELSE default

\* ------------------------------------------------------- dict helpers
Keys(d) == {d[i].key : i \in 1..Len(d)}

IndexOf(d, k) == CHOOSE i \in 1..Len(d) : d[i].key = k

\* d[k]["hosts"]
Hosts(d, k) == d[IndexOf(d, k)].hosts

\* d[k] = {"hosts": hosts}: an existing key keeps its place, a new one goes last
SetItem(d, k, hosts) ==
    IF k \in Keys(d)
    THEN [d EXCEPT ![IndexOf(d, k)] = [key |-> k, hosts |-> hosts]]
    ELSE Append(d, [key |-> k, hosts |-> hosts])

\* ------------------------------------------------------- pure functions
\* Faulty variant: ignore_host without the lower-casing.
ignore_host_no_lower(host) ==
    LET hname == Get(host, "name", "")
        group == Get(host, "u_patching_group", "")
    IN  hname \in IGNORE_HOSTS \/ group \in IGNORE_GROUPS \/ group = ""

\* Faulty variant: ignore_host without the `not group` test.
ignore_host_no_empty_check(host) ==
    LET hname == Lower(Get(host, "name", ""))
        group == Lower(Get(host, "u_patching_group", ""))
    IN  hname \in IGNORE_HOSTS \/ group \in IGNORE_GROUPS

ignore_host(host) ==
    LET hname == Lower(Get(host, "name", ""))
        group == Lower(Get(host, "u_patching_group", ""))
    IN  hname \in IGNORE_HOSTS \/ group \in IGNORE_GROUPS \/ group = ""

\* Faulty variant: the except branch of resolve_dns reports valid=True.
resolve_dns_valid_on_error(hostname, lookup) ==
    IF hostname = None
    THEN [hostname |-> hostname, ip |-> None, valid |-> TRUE]
    ELSE LET h == IF HasDot(hostname) THEN hostname ELSE Qualify(hostname)
         IN  IF lookup = LookupFailed
             THEN [hostname |-> h, ip |-> None, valid |-> TRUE]
             ELSE [hostname |-> h, ip |-> lookup, valid |-> TRUE]

\* `lookup` is what socket.gethostbyname answers; "." not in None raises
\* TypeError inside the try block, before any lookup.
resolve_dns(hostname, lookup) ==
    IF hostname = None
    THEN [hostname |-> hostname, ip |-> None, valid |-> FALSE]
    ELSE LET h == IF HasDot(hostname) THEN hostname ELSE Qualify(hostname)
         IN  IF lookup = LookupFailed
             THEN [hostname |-> h, ip |-> None, valid |-> FALSE]
             ELSE [hostname |-> h, ip |-> lookup, valid |-> TRUE]

\* groups.setdefault(group_name, []).append(name)
SetdefaultAppend(groups, group_name, name) ==
    IF group_name \in Keys(groups)
    THEN [groups EXCEPT ![IndexOf(groups, group_name)].hosts = Append(@, name)]
    ELSE Append(groups, [key |-> group_name, hosts |-> <<name>>])

\* Faulty variant: distribute_hosts inserting at the front of the list.
distribute_hosts_prepend(all_hosts) ==
    LET step(groups, h) ==
            IF h["u_patching_group"] \in Keys(groups)
            THEN [groups EXCEPT ![IndexOf(groups, h["u_patching_group"])].hosts =
                      <<h["name"]>> \o @]
            ELSE Append(groups, [key |-> h["u_patching_group"], hosts |-> <<h["name"]>>])
        f[n \in 0..Len(all_hosts)] ==
            IF n = 0 THEN <<>> ELSE step(f[n - 1], all_hosts[n])
    IN  f[Len(all_hosts)]

\* Faulty variant: distribute_hosts dropping a name the group already holds.
distribute_hosts_dedup(all_hosts) ==
    LET step(groups, h) ==
            IF /\ h["u_patching_group"] \in Keys(groups)
               /\ \E p \in 1..Len(Hosts(groups, h["u_patching_group"])) :
                      Hosts(groups, h["u_patching_group"])[p] = h["name"]
            THEN groups
            ELSE SetdefaultAppend(groups, h["u_patching_group"], h["name"])
        f[n \in 0..Len(all_hosts)] ==
            IF n = 0 THEN <<>> ELSE step(f[n - 1], all_hosts[n])
    IN  f[Len(all_hosts)]

distribute_hosts(all_hosts) ==
    LET f[n \in 0..Len(all_hosts)] ==
            IF n = 0
            THEN <<>>
            ELSE SetdefaultAppend(f[n - 1], all_hosts[n]["u_patching_group"],
                                  all_hosts[n]["name"])
    IN  f[Len(all_hosts)]

\* One iteration of the loop of build_ansible_inventory.  For the group "all"
\* the first assignment rebinds inventory["all"]["hosts"] to the group's own
\* list, which the extend then appends to itself.
BuildStep(inv, group, hosts) ==
    LET inv1 == SetItem(inv, group, hosts)
    IN  SetItem(inv1, "all", Hosts(inv1, "all") \o hosts)

\* Faulty variant: build_ansible_inventory putting each group before "all"'s hosts.
build_ansible_inventory_extend_front(dist) ==
    LET step(inv, group, hosts) ==
            LET inv1 == SetItem(inv, group, hosts)
            IN  SetItem(inv1, "all", hosts \o Hosts(inv1, "all"))
        f[n \in 0..Len(dist)] ==
            IF n = 0
            THEN <<[key |-> "all", hosts |-> <<>>]>>
            ELSE step(f[n - 1], dist[n].key, dist[n].hosts)
    IN  f[Len(dist)]

\* Faulty variant: build_ansible_inventory extending "all" with the first group only.
build_ansible_inventory_extend_once(dist) ==
    LET step(inv, group, hosts) ==
            LET inv1 == SetItem(inv, group, hosts)
            IN  IF Len(Hosts(inv1, "all")) > 0
                THEN inv1
                ELSE SetItem(inv1, "all", hosts)
        f[n \in 0..Len(dist)] ==
            IF n = 0
            THEN <<[key |-> "all", hosts |-> <<>>]>>
            ELSE step(f[n - 1], dist[n].key, dist[n].hosts)
    IN  f[Len(dist)]

build_ansible_inventory(dist) ==
    LET f[n \in 0..Len(dist)] ==
            IF n = 0
            THEN <<[key |-> "all", hosts |-> <<>>]>>
            ELSE BuildStep(f[n - 1], dist[n].key, dist[n].hosts)
    IN  f[Len(dist)]

\* debug_print(msg, debug): a line on STDERR when debug is set
debug_print(err, msg, arg) ==
    IF debug THEN Append(err, <<"[DEBUG]", msg, arg>>) ELSE err

\* ------------------------------------------------------------- actions
Init ==
    /\ pc = "start"
    /\ debug \in BOOLEAN
    /\ raw_hosts = <<>>
    /\ idx = 0
    /\ filtered_hosts = <<>>
    /\ distribution = <<>>
    /\ inventory = <<>>
    /\ stdout = <<>>
    /\ stderr = <<>>
    /\ exit_status = NotExited
    /\ calls = <<>>

RecordSeqs == UNION {[1..n -> HostRecords] : n \in 0..MaxRecords}

\* servicenow_query returns the "result" list of the response
QueryOk ==
    /\ pc = "start"
    /\ \E data \in RecordSeqs :
          /\ raw_hosts' = data
          /\ stderr' = debug_print(debug_print(stderr, "Starting", ""),
                                   "Retrieved", ToString(Len(data)))
    /\ idx' = 1
    /\ filtered_hosts' = <<>>
    /\ pc' = "loop"
    /\ UNCHANGED <<debug, distribution, inventory, stdout, exit_status, calls>>

\* Faulty variant: servicenow_query reporting the error and returning [].
QueryFail_returns_empty ==
    /\ pc = "start"
    /\ stderr' = Append(debug_print(stderr, "Starting", ""),
                        <<"[ERROR]", "ServiceNow query failed", "">>)
    /\ raw_hosts' = <<>>
    /\ idx' = 1
    /\ filtered_hosts' = <<>>
    /\ pc' = "loop"
    /\ UNCHANGED <<debug, distribution, inventory, stdout, exit_status, calls>>

\* servicenow_query: any exception is reported on STDERR, then sys.exit(1)
QueryFail ==
    /\ pc = "start"
    /\ stderr' = Append(debug_print(stderr, "Starting", ""),
                        <<"[ERROR]", "ServiceNow query failed", "">>)
    /\ exit_status' = 1
    /\ pc' = "exited"
    /\ UNCHANGED <<debug, raw_hosts, idx, filtered_hosts, distribution, inventory,
                   stdout, calls>>

\* main: head of the loop, ignore_host(rec) is true: continue
Ignore ==
    /\ pc = "loop"
    /\ idx <= Len(raw_hosts)
    /\ ignore_host(raw_hosts[idx])
    /\ calls' = Append(calls, [fn |-> "ignore_host", i |-> idx, ret |-> "True"])
    /\ stderr' = debug_print(stderr, "Ignoring host", Get(raw_hosts[idx], "name", None))
    /\ idx' = idx + 1
    /\ UNCHANGED <<pc, debug, raw_hosts, filtered_hosts, distribution, inventory,
                   stdout, exit_status>>

\* main: head of the loop, ignore_host(rec) is false: go on to resolve_dns
Pass ==
    /\ pc = "loop"
    /\ idx <= Len(raw_hosts)
    /\ ~ignore_host(raw_hosts[idx])
    /\ calls' = Append(calls, [fn |-> "ignore_host", i |-> idx, ret |-> "False"])
    /\ pc' = "resolve"
    /\ UNCHANGED <<debug, raw_hosts, idx, filtered_hosts, distribution, inventory,
                   stdout, stderr, exit_status>>

\* Faulty variant: a failed lookup is tried once more.
Resolve_retry ==
    /\ pc = "resolve"
    /\ \E lookup \in Lookups :
          LET hostname == Get(raw_hosts[idx], "name", None)
              dns_info == resolve_dns(hostname, lookup)
              tried == Cardinality({c \in 1..Len(calls) :
                           calls[c].fn = "resolve_dns" /\ calls[c].i = idx})
          IN  /\ calls' = Append(calls, [fn |-> "resolve_dns", i |-> idx, ret |-> lookup])
              /\ IF dns_info.valid
                 THEN /\ filtered_hosts' = Append(filtered_hosts, raw_hosts[idx])
                      /\ stderr' = stderr
                      /\ idx' = idx + 1
                      /\ pc' = "loop"
                 ELSE /\ filtered_hosts' = filtered_hosts
                      /\ stderr' = debug_print(stderr, "Dropping host due to DNS failure",
                                               hostname)
                      /\ idx' = IF tried = 0 THEN idx ELSE idx + 1
                      /\ pc' = IF tried = 0 THEN "resolve" ELSE "loop"
    /\ UNCHANGED <<debug, raw_hosts, distribution, inventory, stdout, exit_status>>

\* main: resolve_dns(hostname); an invalid result drops the record
Resolve ==
    /\ pc = "resolve"
    /\ \E lookup \in Lookups :
          LET hostname == Get(raw_hosts[idx], "name", None)
              dns_info == resolve_dns(hostname, lookup)
          IN  /\ calls' = Append(calls, [fn |-> "resolve_dns", i |-> idx, ret |-> lookup])
              /\ IF dns_info.valid
                 THEN /\ filtered_hosts' = Append(filtered_hosts, raw_hosts[idx])
                      /\ stderr' = stderr
                 ELSE /\ filtered_hosts' = filtered_hosts
                      /\ stderr' = debug_print(stderr, "Dropping host due to DNS failure",
                                               hostname)
    /\ idx' = idx + 1
    /\ pc' = "loop"
    /\ UNCHANGED <<debug, raw_hosts, distribution, inventory, stdout, exit_status>>

\* main: the loop is over; distribution = distribute_hosts(filtered_hosts)
Distribute ==
    /\ pc = "loop"
    /\ idx > Len(raw_hosts)
    /\ distribution' = distribute_hosts(filtered_hosts)
    /\ stderr' = debug_print(debug_print(stderr, "Total hosts after filtering",
                                         ToString(Len(filtered_hosts))),
                             "Hosts grouped by patch group", "")
    /\ pc' = "build"
    /\ UNCHANGED <<debug, raw_hosts, idx, filtered_hosts, inventory, stdout,
                   exit_status, calls>>

\* main: inventory = build_ansible_inventory(distribution).  The list of a
\* group named "all" is shared with the inventory, so the extends show in
\* distribution too.
Build ==
    /\ pc = "build"
    /\ inventory' = build_ansible_inventory(distribution)
    /\ distribution' =
          IF "all" \in Keys(distribution)
          THEN SetItem(distribution, "all", Hosts(inventory', "all"))
          ELSE distribution
    /\ stderr' = debug_print(stderr, "Inventory generation complete.", "")
    /\ pc' = "print"
    /\ UNCHANGED <<debug, raw_hosts, idx, filtered_hosts, stdout, exit_status, calls>>

\* main: print_inventory(inventory), then the interpreter exits with status 0
PrintInventory ==
    /\ pc = "print"
    /\ stdout' = Append(stdout, inventory)
    /\ exit_status' = 0
    /\ pc' = "done"
    /\ UNCHANGED <<debug, raw_hosts, idx, filtered_hosts, distribution, inventory,
                   stderr, calls>>

Next ==
    \/ QueryOk
    \/ QueryFail
    \/ Ignore
    \/ Pass
    \/ Resolve
    \/ Distribute
    \/ Build
    \/ PrintInventory

Spec == Init /\ [][Next]_vars

\* ------------------------------------------------- history of a run
\* What the log of calls and the retrieved records say about record i.
Field(rec, key) == IF key \in DOMAIN rec THEN rec[key] ELSE None

NameOf(i) == Field(raw_hosts[i], "name")

GroupOf(i) == Field(raw_hosts[i], "u_patching_group")

Records == 1..Len(raw_hosts)

LookupsOf(i) == {c \in 1..Len(calls) : calls[c].fn = "resolve_dns" /\ calls[c].i = i}

\* The lookup of record i succeeded.
Kept(i) ==
    /\ "name" \in DOMAIN raw_hosts[i]
    /\ \E c \in 1..Len(calls) :
          calls[c].i = i /\ calls[c].fn = "resolve_dns" /\ calls[c].ret # LookupFailed

\* The lookup of record i was attempted and failed.
Failed(i) ==
    \E c \in 1..Len(calls) :
        /\ calls[c].i = i /\ calls[c].fn = "resolve_dns"
        /\ calls[c].ret = LookupFailed \/ "name" \notin DOMAIN raw_hosts[i]

DenyListed(i) ==
    \/ Lower(NameOf(i)) \in IGNORE_HOSTS
    \/ Lower(GroupOf(i)) \in IGNORE_GROUPS

Groupless(i) == GroupOf(i) \in {"", None}

\* The names of the records that satisfy P, in input order.
NamesWhere(P(_)) ==
    LET f[n \in 0..Len(raw_hosts)] ==
            IF n = 0 THEN <<>>
            ELSE IF P(n) THEN Append(f[n - 1], NameOf(n)) ELSE f[n - 1]
    IN  f[Len(raw_hosts)]

\* The kept records, in input order.
KeptRecords ==
    LET f[n \in 0..Len(raw_hosts)] ==
            IF n = 0 THEN <<>>
            ELSE IF Kept(n) THEN Append(f[n - 1], raw_hosts[n]) ELSE f[n - 1]
    IN  f[Len(raw_hosts)]

\* The names of the kept records of group g, in input order.
KeptOf(g) == NamesWhere(LAMBDA i : Kept(i) /\ GroupOf(i) = g)

KeptGroups == {GroupOf(i) : i \in {j \in Records : Kept(j)}}

Count(h, s) == Cardinality({p \in 1..Len(s) : s[p] = h})

Elems(s) == {s[p] : p \in 1..Len(s)}

IsPrefix(s, t) == Len(s) <= Len(t) /\ SubSeq(t, 1, Len(s)) = s

\* The entries of a document other than "all".
Named(doc) == {e \in 1..Len(doc) : doc[e].key # "all"}

\* Sum of the lengths, and concatenation, of the host lists of the named groups.
NamedLen(doc) ==
    LET f[n \in 0..Len(doc)] ==
            IF n = 0 THEN 0
            ELSE IF doc[n].key # "all" THEN f[n - 1] + Len(doc[n].hosts) ELSE f[n - 1]
    IN  f[Len(doc)]

NamedConcat(doc) ==
    LET f[n \in 0..Len(doc)] ==
            IF n = 0 THEN <<>>
            ELSE IF doc[n].key # "all" THEN f[n - 1] \o doc[n].hosts ELSE f[n - 1]
    IN  f[Len(doc)]

NamedCount(h, doc) == Count(h, NamedConcat(doc))

Built == pc \in {"print", "done"}

\* ----------------------------------------------------------------- C1
\* C1: a record whose name or group is on a denylist, compared in lower
\* case, contributes nothing to any host list of a printed document: no key
\* and no host of the document is denylisted, a named group holds a name no
\* more often than records off the denylists carry it with that group, and
\* every name of "all" is carried by a record off the denylists.
C1_DenylistedAbsent ==
    \A d \in 1..Len(stdout) : \A e \in 1..Len(stdout[d]) :
        LET key == stdout[d][e].key
            hosts == stdout[d][e].hosts
        IN  /\ Lower(key) \notin IGNORE_GROUPS
            /\ \A p \in 1..Len(hosts) : Lower(hosts[p]) \notin IGNORE_HOSTS
            /\ key # "all" =>
                  \A h \in Elems(hosts) :
                      Count(h, hosts) <=
                          Cardinality({i \in Records : /\ ~DenyListed(i)
                                                       /\ NameOf(i) = h
                                                       /\ GroupOf(i) = key})
            /\ key = "all" =>
                  \A h \in Elems(hosts) :
                      \E i \in Records : ~DenyListed(i) /\ NameOf(i) = h

C1_Witness ==
    /\ pc = "done"
    /\ \E i, j, k \in Records :
          /\ NameOf(i) = "DRHOST01" /\ GroupOf(i) = "webservers"
          /\ GroupOf(j) = "Unix_Team"
          /\ Kept(k) /\ GroupOf(k) = "webservers"

\* ----------------------------------------------------------------- C2
\* C2: a record whose group is empty or missing is always ignored by the
\* filter (a missing group exactly like an empty one), is never looked up
\* and never reaches filtered_hosts, and the printed document has no key for
\* it and no host that only such a record carries.
C2_GrouplessExcluded ==
    /\ \A c \in 1..Len(calls) :
          Groupless(calls[c].i) =>
              calls[c].fn = "ignore_host" /\ calls[c].ret = "True"
    /\ \A p \in 1..Len(filtered_hosts) :
          Field(filtered_hosts[p], "u_patching_group") \notin {"", None}
    /\ \A d \in 1..Len(stdout) : \A e \in 1..Len(stdout[d]) :
          LET key == stdout[d][e].key
              hosts == stdout[d][e].hosts
          IN  /\ key \notin {"", None}
              /\ \A h \in Elems(hosts) :
                    \E i \in Records :
                        /\ ~Groupless(i)
                        /\ NameOf(i) = h
                        /\ key # "all" => GroupOf(i) = key
              /\ key # "all" =>
                    Len(hosts) <= Cardinality({i \in Records :
                                      ~Groupless(i) /\ GroupOf(i) = key})

C2_Witness ==
    /\ pc = "done"
    /\ \E i, j, k \in Records :
          /\ "u_patching_group" \notin DOMAIN raw_hosts[i]
          /\ "u_patching_group" \in DOMAIN raw_hosts[j] /\ GroupOf(j) = ""
          /\ NameOf(j) = "DRHOST01"
          /\ Kept(k)

\* ----------------------------------------------------------------- C3
\* C3: a record whose lookup fails is dropped and the run goes on: it never
\* reaches filtered_hosts, the run does not exit with an error, and in the
\* printed document every named group is exactly the names of the records of
\* that group whose lookup succeeded, in input order (for a group named
\* "all" these names open the "all" list); the document is the one grouping
\* and assembly give for the input without the failing records.
C3_FailedLookupDropsOnlyThatHost ==
    /\ Len(filtered_hosts) = Cardinality({i \in Records : Kept(i)})
    /\ (\E i \in Records : Failed(i)) => pc # "exited" /\ exit_status # 1
    /\ \A d \in 1..Len(stdout) :
          /\ stdout[d] = build_ansible_inventory(distribute_hosts(KeptRecords))
          /\ \A e \in Named(stdout[d]) :
                stdout[d][e].hosts = KeptOf(stdout[d][e].key)
          /\ \A i \in Records :
                Kept(i) =>
                    /\ GroupOf(i) \in Keys(stdout[d])
                    /\ IsPrefix(KeptOf(GroupOf(i)), Hosts(stdout[d], GroupOf(i)))

C3_Witness ==
    /\ pc = "done"
    /\ \E i, j, k \in Records :
          /\ i < j /\ j < k
          /\ Kept(i) /\ Failed(j) /\ ~Kept(j) /\ Kept(k)
          /\ GroupOf(i) = "webservers" /\ GroupOf(j) = "webservers"
          /\ GroupOf(k) = "webservers"
          /\ NameOf(i) # NameOf(k)

\* ----------------------------------------------------------------- C4
\* C4 as stated: in every built inventory, a group named "all" included,
\* the "all" list is as long as the other host lists together.
C4_AllLengthIsSumOfOthers ==
    Built => Len(Hosts(inventory, "all")) = NamedLen(inventory)

\* C4 amended: the same, for a grouped inventory with no group named "all".
C4_AllLengthIsSumWithoutAllGroup ==
    (Built /\ "all" \notin Keys(distribution)) =>
        Len(Hosts(inventory, "all")) = NamedLen(inventory)

C4_Witness ==
    /\ pc = "done"
    /\ "all" \notin Keys(distribution)
    /\ Len(distribution) = 2
    /\ Len(Hosts(stdout[1], "all")) = 3

\* ----------------------------------------------------------------- C5
\* C5: grouping is a stable partition: the k-th kept record of a group
\* (counted in input order) has its name at position k of the group's host
\* list, after distribute_hosts and in the printed document, and the groups
\* stand in the order of their first kept record.
RankOf(i) ==
    Cardinality({j \in Records : j <= i /\ Kept(j) /\ GroupOf(j) = GroupOf(i)})

FirstKept(g) ==
    CHOOSE i \in Records :
        /\ Kept(i) /\ GroupOf(i) = g
        /\ \A j \in Records : (Kept(j) /\ GroupOf(j) = g) => i <= j

StablePartition(d) ==
    /\ \A i \in Records :
          Kept(i) =>
              /\ GroupOf(i) \in Keys(d)
              /\ Len(Hosts(d, GroupOf(i))) >= RankOf(i)
              /\ Hosts(d, GroupOf(i))[RankOf(i)] = NameOf(i)

C5_StablePartition ==
    /\ pc \in {"build", "print", "done"} =>
          /\ StablePartition(distribution)
          /\ \A a \in 2..Len(distribution) :
                FirstKept(distribution[a - 1].key) < FirstKept(distribution[a].key)
    /\ \A d \in 1..Len(stdout) : StablePartition(stdout[d])

C5_Witness ==
    /\ pc = "done"
    /\ \E i, j, k \in Records :
          /\ i < j /\ j < k
          /\ Kept(i) /\ Kept(j) /\ Kept(k)
          /\ GroupOf(i) = "webservers" /\ GroupOf(j) = "dbteam"
          /\ GroupOf(k) = "webservers"
          /\ NameOf(i) # NameOf(k)
          /\ Hosts(stdout[1], "webservers") = <<NameOf(i), NameOf(k)>>

\* ----------------------------------------------------------------- C6
\* C6 as stated: in every printed document each hostname is in exactly one
\* named group, and is in "all" once per occurrence in a named group.
C6_OneGroupPerHost ==
    \A d \in 1..Len(stdout) :
        \A h \in UNION {Elems(stdout[d][e].hosts) : e \in 1..Len(stdout[d])} :
            /\ Cardinality({e \in Named(stdout[d]) : h \in Elems(stdout[d][e].hosts)}) = 1
            /\ Count(h, Hosts(stdout[d], "all")) = NamedCount(h, stdout[d])

\* C6 amended: each hostname is in a named group once per kept record that
\* carries it with that group (so in several groups when records of one name
\* carry different groups), and, when no kept record has the group "all", it
\* is in "all" once per occurrence in a named group.
C6_HostPerKeptRecord ==
    \A d \in 1..Len(stdout) :
        \A h \in UNION {Elems(stdout[d][e].hosts) : e \in 1..Len(stdout[d])} :
            /\ \A e \in Named(stdout[d]) :
                  Count(h, stdout[d][e].hosts) =
                      Cardinality({i \in Records : /\ Kept(i)
                                                   /\ NameOf(i) = h
                                                   /\ GroupOf(i) = stdout[d][e].key})
            /\ "all" \notin KeptGroups =>
                  Count(h, Hosts(stdout[d], "all")) = NamedCount(h, stdout[d])

C6_Witness ==
    /\ pc = "done"
    /\ "all" \notin KeptGroups
    /\ \E i, j, k \in Records :
          /\ Kept(i) /\ Kept(j) /\ Kept(k) /\ i # k
          /\ NameOf(i) = NameOf(j) /\ GroupOf(i) # GroupOf(j)
          /\ NameOf(i) = NameOf(k) /\ GroupOf(i) = GroupOf(k)
          /\ Count(NameOf(i), Hosts(stdout[1], "all")) = 3

\* ----------------------------------------------------------------- C7
\* C7: when a kept record has the group "all", the "all" list of the printed
\* document holds every host of every group exactly as often as the groups
\* hold it: once per kept record of that name.
C7_AllGroupMerged ==
    \A d \in 1..Len(stdout) :
        "all" \in KeptGroups =>
            \A i \in Records :
                Kept(i) =>
                    Count(NameOf(i), Hosts(stdout[d], "all")) =
                        Cardinality({j \in Records : Kept(j) /\ NameOf(j) = NameOf(i)})

\* ----------------------------------------------------------------- C8
\* C8: no partial output.  At most one document is ever on STDOUT.  A
\* document on STDOUT means the run is over with status 0, every retrieved
\* record went through the filter and, unless ignored, through one lookup,
\* every kept record is in its group, and the document is the assembled
\* inventory.  An error report on STDERR means the retrieval failed: the run
\* has exited with status 1, no record was processed and STDOUT is empty.
ErrorReported == \E m \in 1..Len(stderr) : stderr[m][1] = "[ERROR]"

AllProcessed ==
    /\ idx = Len(raw_hosts) + 1
    /\ \A i \in Records :
          \E c \in 1..Len(calls) :
              /\ calls[c].fn = "ignore_host" /\ calls[c].i = i
              /\ calls[c].ret = "False" => LookupsOf(i) # {}
    /\ \A i \in Records :
          Kept(i) => NameOf(i) \in Elems(Hosts(inventory, GroupOf(i)))

C8_NoPartialOutput ==
    /\ Len(stdout) <= 1
    /\ stdout # <<>> =>
          /\ pc = "done" /\ exit_status = 0
          /\ AllProcessed
          /\ stdout[1] = inventory
          /\ ~ErrorReported
    /\ exit_status = 0 => Len(stdout) = 1
    /\ ErrorReported =>
          /\ pc = "exited" /\ exit_status = 1
          /\ calls = <<>>
          /\ stdout = <<>>
    /\ (pc = "exited" \/ exit_status = 1) => ErrorReported

C8_Witness ==
    /\ pc = "exited"
    /\ exit_status = 1
    /\ ErrorReported
    /\ stdout = <<>>

\* ----------------------------------------------------------------- C9
\* C9: with no kept record of group "all", the printed document is fixed by
\* the ordered input and the lookups: "all" comes first, the named groups
\* follow in the order of their first kept record, each holds the kept names
\* of its group in input order, and the "all" list is the concatenation of
\* the named lists in that order.
C9_AllIsConcatInGroupOrder ==
    \A d \in 1..Len(stdout) :
        "all" \notin KeptGroups =>
            /\ stdout[d][1].key = "all"
            /\ Named(stdout[d]) = 2..Len(stdout[d])
            /\ {stdout[d][e].key : e \in Named(stdout[d])} = KeptGroups
            /\ \A a \in 3..Len(stdout[d]) :
                  FirstKept(stdout[d][a - 1].key) < FirstKept(stdout[d][a].key)
            /\ \A e \in Named(stdout[d]) :
                  stdout[d][e].hosts = KeptOf(stdout[d][e].key)
            /\ Hosts(stdout[d], "all") = NamedConcat(stdout[d])

C9_Witness ==
    /\ pc = "done"
    /\ "all" \notin KeptGroups
    /\ \E i, j, k \in Records :
          /\ i < j /\ j < k
          /\ Kept(i) /\ Kept(j) /\ Kept(k)
          /\ GroupOf(i) = GroupOf(k) /\ GroupOf(i) # GroupOf(j)
          /\ NameOf(j) # NameOf(k)
          /\ Hosts(stdout[1], "all") = <<NameOf(i), NameOf(k), NameOf(j)>>

\* ---------------------------------------------------------------- C10
\* C10: the records are handled one at a time in input order: the record
\* index never falls from one logged call to the next, each record is
\* filtered once, a lookup is made at most once per record and only right
\* after the filter let that record pass, and record i+1 is filtered only
\* once record i was ignored or its lookup has returned.
C10_SequentialSingleLookup ==
    /\ \A c \in 2..Len(calls) : calls[c - 1].i <= calls[c].i
    /\ \A i \in Records : Cardinality(LookupsOf(i)) <= 1
    /\ \A c \in 1..Len(calls) :
          /\ calls[c].fn = "resolve_dns" =>
                /\ c > 1
                /\ calls[c - 1] = [fn |-> "ignore_host", i |-> calls[c].i, ret |-> "False"]
          /\ calls[c].fn = "ignore_host" =>
                IF c = 1
                THEN calls[c].i = 1
                ELSE /\ calls[c].i = calls[c - 1].i + 1
                     /\ \/ calls[c - 1].fn = "resolve_dns"
                        \/ calls[c - 1].ret = "True"
    /\ pc = "resolve" => LookupsOf(idx) = {}

C10_Witness ==
    /\ pc = "done"
    /\ \E i, j, k \in Records :
          /\ i < j /\ j < k
          /\ [fn |-> "ignore_host", i |-> i, ret |-> "True"] \in Elems(calls)
          /\ Failed(j) /\ ~Kept(j)
          /\ Kept(k)

====
